---- MODULE Spec2Model ----
(***************************************************************************)
(* Prompt command tokenizer of superfile: findEndingParenthesis,           *)
(* resolveShellSubstitution and tokenizePromptCommand                      *)
(* (src/internal/ui/prompt/tokenize.go).                                   *)
(*                                                                         *)
(* A command is a sequence of runes; a rune is a one-character string.     *)
(* Go indices are 0-based: At(r, k) is r[k] and Slice(r, a, b) is r[a:b].  *)
(***************************************************************************)
EXTENDS Integers, Sequences, FiniteSets, TLC

VARIABLES
    command,     \* tokenizePromptCommand / resolveShellSubstitution: the raw command (cmdRunes)
    pc,          \* position of the call: "scan", "exec", "resolved", "done", or "idle"
    i,           \* resolveShellSubstitution: the scan index
    resCommand,  \* resolveShellSubstitution: the strings.Builder
    resStr,      \* resolveShellSubstitution: the returned string
    resErr,      \* resolveShellSubstitution: the returned error
    tokens,      \* tokenizePromptCommand: the returned token list (NilTokens for nil)
    tokErr,      \* tokenizePromptCommand: the returned error
    fieldsCalls, \* number of strings.Fields calls made by tokenizePromptCommand
    env,         \* the process environment as far as os.LookupEnv has read it
    calls,       \* os.LookupEnv and ExecuteCommandInShell calls made so far, in order
    fSeq,        \* findEndingParenthesis called on its own: r
    fOpenIdx,    \*   openIdx
    fOpen,       \*   open
    fClose,      \*   close
    fRes,        \*   the returned index
    fPc,         \*   "call" before the call, "ret" after it, or "idle"
    qText,       \* tokenizeWithQuotes called on its own: the text
    qTokens,     \*   the returned token list (NilTokens for nil)
    qErr,        \*   the returned error
    qPc,         \*   "call" before the call, "ret" after it, or "idle"
    stdin,       \* DetectTerminalCellSize: what os.Stdin.Read gives, [err, data]
    mainPc,      \*   the caller: "start", "select", "parse", "ret", or "idle"
    readerPc,    \*   the reader goroutine: "none", "read", "send", "done"
    readerMsg,   \*   the string the reader goroutine is about to send
    responseChan,\*   the buffer of the channel
    response,    \*   the local variable response
    timedOut,    \*   the select took the time.After case
    sends,       \*   sends made on responseChan
    detResult,   \*   the returned TerminalCellSize, NoSize before the return
    cellSize,    \* TerminalCapabilities: the field cellSize
    onceDone,    \*   cellSizeInit: its done flag
    onceHolder,  \*   cellSizeInit: the caller that holds its mutex, or NoHolder
    cpc,         \*   where each caller is
    got,         \*   what each GetTerminalCellSize returned, NoSize before
    detections,  \*   calls of DetectTerminalCellSize made
    detected     \*   what the last of them returned, NoSize before

resolveVars == <<command, pc, i, resCommand, resStr, resErr, tokens, tokErr,
                 fieldsCalls, env, calls>>
findVars == <<fSeq, fOpenIdx, fOpen, fClose, fRes, fPc>>
quoteVars == <<qText, qTokens, qErr, qPc>>
capsVars == <<cellSize, onceDone, onceHolder, cpc, got, detections, detected>>
detectVars == <<stdin, mainPc, readerPc, readerMsg, responseChan, response, timedOut,
                sends, detResult>>
vars == <<command, pc, i, resCommand, resStr, resErr, tokens, tokErr,
          fieldsCalls, env, calls, fSeq, fOpenIdx, fOpen, fClose, fRes, fPc,
          qText, qTokens, qErr, qPc,
          stdin, mainPc, readerPc, readerMsg, responseChan, response, timedOut,
          sends, detResult,
          cellSize, onceDone, onceHolder, cpc, got, detections, detected>>

----------------------------------------------------------------------------
(* Bounds and input alphabets *)

\* longest raw command explored
MaxCmdLen == 6
\* longest rune sequence handed to findEndingParenthesis on its own
MaxSeqLen == 5
\* longest raw command explored with white space, control and quote runes
MaxTokLen == 4
\* longest text handed to tokenizeWithQuotes on its own
MaxTextLen == 7
\* longest height or width field of a terminal response
MaxFieldLen == 2
\* calls of InitTerminalCapabilities and of GetTerminalCellSize on one instance
MaxInitCalls == 2
MaxGetCalls == 2
\* largest width and height a detection returns besides the defaults
MaxPixels == 2

\* runes of a raw command
Runes == {"$", "{", "}", "(", ")", "a"}
\* runes of a raw command explored for its split into tokens; "VT" is the vertical
\* tab and "BEL" the bell, which have no escape in a TLA+ string
TokRunes == {"$", "{", "}", "(", ")", "a", " ", "\t", "\n", "VT", "\f", "\r", "BEL", "\""}
\* runes of a text handed to tokenizeWithQuotes on its own
QuoteRunes == {"a", " ", "'", "\"", "\\"}
\* runes of the height and width fields of a terminal response
FieldRunes == {"0", "1", "-", "+"}
\* runes of a sequence handed to findEndingParenthesis on its own
BracketRunes == {"(", ")", "{", "}"}
\* values an environment variable may hold
EnvValues == {<<>>, <<"a">>, <<"a", "{">>, <<"{", "a", "}">>}
\* standard outputs a sub-command may produce
Outputs == {<<>>, <<"a">>, <<"a", "(">>, <<"$", "(", "a", ")">>}

SeqsUpTo(S, n) == UNION {[1..k -> S] : k \in 0..n}

Min(S) == CHOOSE x \in S : \A y \in S : x <= y

At(r, k) == r[k + 1]
Slice(r, a, b) == SubSeq(r, a + 1, b)

----------------------------------------------------------------------------
(* findEndingParenthesis *)

\* sentinel of findEndingParenthesis for a bad openIdx
NotFound == -1

\* the loop with nested opening runes not counted
RECURSIVE findLoop_NoNesting(_, _, _, _, _)
findLoop_NoNesting(r, k, openCount, open, close) ==
    IF k < Len(r) /\ openCount # 0
    THEN LET c == IF At(r, k) = close THEN openCount - 1 ELSE openCount
         IN  findLoop_NoNesting(r, IF c # 0 THEN k + 1 ELSE k, c, open, close)
    ELSE k

\* lines 100-112
RECURSIVE findLoop(_, _, _, _, _)
findLoop(r, k, openCount, open, close) ==
    IF k < Len(r) /\ openCount # 0
    THEN LET c == IF At(r, k) = open THEN openCount + 1
                  ELSE IF At(r, k) = close THEN openCount - 1
                  ELSE openCount
         IN  findLoop(r, IF c # 0 THEN k + 1 ELSE k, c, open, close)
    ELSE k

\* a bad openIdx reported with the end of the sequence
findEndingParenthesis_OneSentinel(r, openIdx, open, close) ==
    IF openIdx < 0 \/ openIdx >= Len(r) \/ At(r, openIdx) # open
    THEN Len(r)
    ELSE findLoop(r, openIdx + 1, 1, open, close)

\* lines 95-113
findEndingParenthesis(r, openIdx, open, close) ==
    IF openIdx < 0 \/ openIdx >= Len(r) \/ At(r, openIdx) # open
    THEN NotFound
    ELSE findLoop(r, openIdx + 1, 1, open, close)

FindInit ==
    /\ fSeq \in SeqsUpTo(BracketRunes, MaxSeqLen)
    /\ fOpenIdx \in -1 .. MaxSeqLen
    /\ fOpen \in BracketRunes
    /\ fClose \in BracketRunes
    /\ fRes = 0
    /\ fPc = "call"

FindIdle ==
    /\ fSeq = <<>>
    /\ fOpenIdx = 0
    /\ fOpen = "("
    /\ fClose = ")"
    /\ fRes = 0
    /\ fPc = "idle"

FindCall ==
    /\ fPc = "call"
    /\ fRes' = findEndingParenthesis(fSeq, fOpenIdx, fOpen, fClose)
    /\ fPc' = "ret"
    /\ UNCHANGED <<fSeq, fOpenIdx, fOpen, fClose>>
    /\ UNCHANGED <<resolveVars, quoteVars, detectVars, capsVars>>

----------------------------------------------------------------------------
(* Errors and collaborators *)

NoError == [kind |-> "nil", arg |-> <<>>, cause |-> "nil"]
\* fmt.Errorf("unexpected error in tokenization")
UnexpectedError == [kind |-> "unexpected", arg |-> <<>>, cause |-> "nil"]
curlyBracketParMatchError == [kind |-> "curlyBracketParMatchError", arg |-> <<>>, cause |-> "nil"]
bracketParMatchError == [kind |-> "bracketParMatchError", arg |-> <<>>, cause |-> "nil"]
envVarNotFoundError(varName) == [kind |-> "envVarNotFoundError", arg |-> varName, cause |-> "nil"]
\* the executor's error formatted into the message, not wrapped
ShellSubstitutionError_NoWrap(cmd, err) == [kind |-> "shellSubstitution", arg |-> cmd, cause |-> "nil"]
\* fmt.Errorf("could not execute shell substitution command : %s : %w", subCmd, err)
ShellSubstitutionError(cmd, err) == [kind |-> "shellSubstitution", arg |-> cmd, cause |-> err]

\* os.LookupEnv: (value, ok)
NoValue == [ok |-> FALSE, value |-> <<>>]
LookupResults == {NoValue} \cup {[ok |-> TRUE, value |-> v] : v \in EnvValues}

\* retCode of ExecuteCommandInShell when the command could not be run
LaunchFailed == -1

\* utils.ExecuteCommandInShell: (retCode, output, err). A process that cannot be
\* started, or that outlives the timeout, is reported with retCode -1 and the cause.
ExecuteCommandInShell ==
    {[retCode |-> LaunchFailed, output |-> o, err |-> e] :
        o \in Outputs, e \in {"launch", "DeadlineExceeded"}}
    \cup {[retCode |-> 0, output |-> o, err |-> "nil"] : o \in Outputs}
    \cup {[retCode |-> 1, output |-> o, err |-> e] : o \in Outputs, e \in {"nil", "exit"}}

\* form feed and carriage return taken for token runes
IsSpace_FourSeparators(c) == c \in {" ", "\t", "\n", "VT"}
\* unicode.IsSpace, as strings.Fields uses it, on the runes of the model ("VT" stands
\* for the vertical tab, which has no escape in a TLA+ string)
IsSpace(c) == c \in {" ", "\t", "\n", "VT", "\f", "\r"}

RECURSIVE FieldsFrom(_, _, _)
FieldsFrom(s, k, cur) ==
    IF k >= Len(s)
    THEN IF cur = <<>> THEN <<>> ELSE <<cur>>
    ELSE IF IsSpace(At(s, k))
         THEN (IF cur = <<>> THEN <<>> ELSE <<cur>>) \o FieldsFrom(s, k + 1, <<>>)
         ELSE FieldsFrom(s, k + 1, Append(cur, At(s, k)))

Fields(s) == FieldsFrom(s, 0, <<>>)

NilTokens == "nil"

----------------------------------------------------------------------------
(* tokenizeWithQuotes: the quote-aware tokenizer, three modes and an escape *)

UnterminatedQuote == "UnterminatedQuote"
DanglingEscape == "DanglingEscape"

QuoteResult(toks, err) == [tokens |-> toks, err |-> err]

\* bare mode, white space or end of input: the token being built, if any, is complete
FlushToken(cur, toks) == IF cur # <<>> THEN Append(toks, cur) ELSE toks

\* the closing quote left out of the token list until white space follows
CloseQuote_Merge(cur, toks) == [cur |-> cur, toks |-> toks]
\* an empty quoted run dropped
CloseQuote_NonEmpty(cur, toks) == [cur |-> <<>>, toks |-> FlushToken(cur, toks)]
\* a closing quote completes the token, empty or not
CloseQuote(cur, toks) == [cur |-> <<>>, toks |-> Append(toks, cur)]

\* every backslash inside double quotes dropped
DoubleEscape_DropBackslash(c) == <<c>>
\* inside double quotes: what a backslash followed by c adds to the token
DoubleEscape(c) == IF c = "\"" \/ c = "\\" THEN <<c>> ELSE <<"\\", c>>

\* the tokens found so far returned with the error
EndOfInput_Partial(mode, cur, toks) ==
    IF mode = "bare" THEN QuoteResult(FlushToken(cur, toks), "nil")
    ELSE QuoteResult(toks, UnterminatedQuote)
\* the input ends in the given mode
EndOfInput(mode, cur, toks) ==
    IF mode = "bare" THEN QuoteResult(FlushToken(cur, toks), "nil")
    ELSE QuoteResult(NilTokens, UnterminatedQuote)

RECURSIVE quoteLoop(_, _, _, _, _)
quoteLoop(s, k, mode, cur, toks) ==
    IF k >= Len(s) THEN EndOfInput(mode, cur, toks)
    ELSE LET c == At(s, k)
             last == k + 1 >= Len(s)
         IN  CASE mode = "bare" ->
                    IF IsSpace(c)
                    THEN quoteLoop(s, k + 1, "bare", <<>>, FlushToken(cur, toks))
                    ELSE IF c = "'" THEN quoteLoop(s, k + 1, "single", cur, toks)
                    ELSE IF c = "\"" THEN quoteLoop(s, k + 1, "double", cur, toks)
                    ELSE IF c = "\\"
                         THEN IF last THEN QuoteResult(NilTokens, DanglingEscape)
                              ELSE quoteLoop(s, k + 2, "bare", Append(cur, At(s, k + 1)), toks)
                    ELSE quoteLoop(s, k + 1, "bare", Append(cur, c), toks)
               [] mode = "single" ->
                    IF c = "\\" /\ ~last /\ At(s, k + 1) = "'"
                    THEN quoteLoop(s, k + 2, "single", Append(cur, "'"), toks)
                    ELSE IF c = "'"
                         THEN quoteLoop(s, k + 1, "bare", CloseQuote(cur, toks).cur,
                                        CloseQuote(cur, toks).toks)
                    ELSE quoteLoop(s, k + 1, "single", Append(cur, c), toks)
               [] mode = "double" ->
                    IF c = "\\"
                    THEN IF last THEN QuoteResult(NilTokens, DanglingEscape)
                         ELSE quoteLoop(s, k + 2, "double",
                                        cur \o DoubleEscape(At(s, k + 1)), toks)
                    ELSE IF c = "\""
                         THEN quoteLoop(s, k + 1, "bare", CloseQuote(cur, toks).cur,
                                        CloseQuote(cur, toks).toks)
                    ELSE quoteLoop(s, k + 1, "double", Append(cur, c), toks)

tokenizeWithQuotes(s) == quoteLoop(s, 0, "bare", <<>>, <<>>)

QuoteInit ==
    /\ qText \in SeqsUpTo(QuoteRunes, MaxTextLen)
    /\ qTokens = NilTokens
    /\ qErr = "nil"
    /\ qPc = "call"

QuoteIdle ==
    /\ qText = <<>>
    /\ qTokens = NilTokens
    /\ qErr = "nil"
    /\ qPc = "idle"

QuoteCall ==
    /\ qPc = "call"
    /\ qTokens' = tokenizeWithQuotes(qText).tokens
    /\ qErr' = tokenizeWithQuotes(qText).err
    /\ qPc' = "ret"
    /\ UNCHANGED qText
    /\ UNCHANGED <<resolveVars, findVars, detectVars, capsVars>>

----------------------------------------------------------------------------
(* DetectTerminalCellSize and parseCSI16tResponse *)

DefaultPixelsPerColumn == 10
DefaultPixelsPerRow == 20

TerminalCellSize(w, h) == [PixelsPerColumn |-> w, PixelsPerRow |-> h]
DefaultCellSize == TerminalCellSize(DefaultPixelsPerColumn, DefaultPixelsPerRow)
\* the zero value of TerminalCellSize, held where nothing was returned yet
NoSize == TerminalCellSize(0, 0)

\* "\x1b[6;", "ESC" standing for the escape rune
Marker == <<"ESC", "[", "6", ";">>

\* what the terminal may answer: text before the marker or none, the marker or none,
\* two fields with or without ";" between them, and what follows the width
Responses ==
    {pre \o mark \o f1 \o sep \o f2 \o tail :
        pre \in {<<>>, <<"x">>},
        mark \in {<<>>, Marker},
        f1 \in SeqsUpTo(FieldRunes, MaxFieldLen),
        sep \in {<<>>, <<";">>},
        f2 \in SeqsUpTo(FieldRunes, MaxFieldLen),
        tail \in {<<>>, <<"t">>, <<"t", ";", "1">>}}

\* os.Stdin.Read: an error, or the bytes read
StdinReads == {[err |-> TRUE, data |-> <<>>]} \cup {[err |-> FALSE, data |-> r] : r \in Responses}

HasPrefix(s, pre) == Len(s) >= Len(pre) /\ SubSeq(s, 1, Len(pre)) = pre

\* strings.Contains
Contains(s, sub) == \E k \in 0 .. Len(s) - Len(sub) : SubSeq(s, k + 1, k + Len(sub)) = sub

\* strings.TrimPrefix
TrimPrefix(s, pre) == IF HasPrefix(s, pre) THEN SubSeq(s, Len(pre) + 1, Len(s)) ELSE s

\* strings.Split on a separator of one rune
RECURSIVE SplitFrom(_, _, _, _)
SplitFrom(s, sep, k, cur) ==
    IF k > Len(s) THEN <<cur>>
    ELSE IF s[k] = sep THEN <<cur>> \o SplitFrom(s, sep, k + 1, <<>>)
    ELSE SplitFrom(s, sep, k + 1, Append(cur, s[k]))

Split(s, sep) == SplitFrom(s, sep, 1, <<>>)

DigitValue(c) == IF c = "0" THEN 0 ELSE 1
IsDigit(c) == c \in {"0", "1"}

RECURSIVE DigitsValue(_, _)
DigitsValue(d, acc) == IF d = <<>> THEN acc ELSE DigitsValue(Tail(d), 10 * acc + DigitValue(d[1]))

\* strconv.Atoi: an optional sign, then one digit at least and digits only
Atoi(s) ==
    LET signed == s # <<>> /\ s[1] \in {"+", "-"}
        digits == IF signed THEN Tail(s) ELSE s
    IN  IF digits = <<>> \/ \E k \in 1..Len(digits) : ~IsDigit(digits[k])
        THEN [ok |-> FALSE, val |-> 0]
        ELSE [ok |-> TRUE,
              val |-> IF signed /\ s[1] = "-" THEN 0 - DigitsValue(digits, 0)
                      ELSE DigitsValue(digits, 0)]

ParseFailed == [ok |-> FALSE, width |-> 0, height |-> 0]

\* a height or a width of zero let through
BadFields_ZeroAllowed(h, w) == ~h.ok \/ ~w.ok \/ h.val < 0 \/ w.val < 0
\* line 165
BadFields(h, w) == ~h.ok \/ ~w.ok \/ h.val <= 0 \/ w.val <= 0

parseCSI16tResponse(resp) ==
    IF ~Contains(resp, Marker) THEN ParseFailed
    ELSE LET parts == Split(TrimPrefix(resp, Marker), ";")
         IN  IF Len(parts) < 2 THEN ParseFailed
             ELSE LET heightStr == parts[1]
                      widthParts == Split(parts[2], "t")
                      widthStr == widthParts[1]
                      h == Atoi(heightStr)
                      w == Atoi(widthStr)
                  IN  IF BadFields(h, w) THEN ParseFailed
                      ELSE [ok |-> TRUE, width |-> w.val, height |-> h.val]

ResponseChanCap == 1

\* a send goes through only while the caller waits in the select
CanSend_Unbuffered == mainPc = "select"
\* a send on the channel goes through when its buffer has room
CanSend == Len(responseChan) < ResponseChanCap

DetectInit ==
    /\ stdin \in StdinReads
    /\ mainPc = "start"
    /\ readerPc = "none"
    /\ readerMsg = <<>>
    /\ responseChan = <<>>
    /\ response = <<>>
    /\ timedOut = FALSE
    /\ sends = 0
    /\ detResult = NoSize

DetectIdle ==
    /\ stdin = [err |-> TRUE, data |-> <<>>]
    /\ mainPc = "idle"
    /\ readerPc = "none"
    /\ readerMsg = <<>>
    /\ responseChan = <<>>
    /\ response = <<>>
    /\ timedOut = FALSE
    /\ sends = 0
    /\ detResult = NoSize

\* lines 75-100: the request is written, the channel made, the goroutine started
DetectStart ==
    /\ mainPc = "start"
    /\ mainPc' = "select"
    /\ readerPc' = "read"
    /\ UNCHANGED <<stdin, readerMsg, responseChan, response, timedOut, sends, detResult>>
    /\ UNCHANGED <<resolveVars, findVars, quoteVars, capsVars>>

\* lines 92-99: os.Stdin.Read returns
ReaderRead ==
    /\ readerPc = "read"
    /\ readerMsg' = (IF stdin.err THEN <<>> ELSE stdin.data)
    /\ readerPc' = "send"
    /\ UNCHANGED <<stdin, mainPc, responseChan, response, timedOut, sends, detResult>>
    /\ UNCHANGED <<resolveVars, findVars, quoteVars, capsVars>>

\* lines 96, 99: the send, after which the goroutine ends
ReaderSend ==
    /\ readerPc = "send"
    /\ CanSend
    /\ responseChan' = Append(responseChan, readerMsg)
    /\ sends' = sends + 1
    /\ readerPc' = "done"
    /\ UNCHANGED <<stdin, mainPc, readerMsg, response, timedOut, detResult>>
    /\ UNCHANGED <<resolveVars, findVars, quoteVars, capsVars>>

\* line 103: the select receives
MainReceive ==
    /\ mainPc = "select"
    /\ responseChan # <<>>
    /\ response' = Head(responseChan)
    /\ responseChan' = Tail(responseChan)
    /\ mainPc' = "parse"
    /\ UNCHANGED <<stdin, readerPc, readerMsg, timedOut, sends, detResult>>
    /\ UNCHANGED <<resolveVars, findVars, quoteVars, capsVars>>

\* lines 105-114: the 100 ms are over
MainTimeout ==
    /\ mainPc = "select"
    /\ timedOut' = TRUE
    /\ detResult' = DefaultCellSize
    /\ mainPc' = "ret"
    /\ UNCHANGED <<stdin, readerPc, readerMsg, responseChan, response, sends>>
    /\ UNCHANGED <<resolveVars, findVars, quoteVars, capsVars>>

\* lines 118-138
MainParse ==
    /\ mainPc = "parse"
    /\ LET parsed == parseCSI16tResponse(response)
       IN  detResult' = IF parsed.ok THEN TerminalCellSize(parsed.width, parsed.height)
                        ELSE DefaultCellSize
    /\ mainPc' = "ret"
    /\ UNCHANGED <<stdin, readerPc, readerMsg, responseChan, response, timedOut, sends>>
    /\ UNCHANGED <<resolveVars, findVars, quoteVars, capsVars>>

----------------------------------------------------------------------------
(* TerminalCapabilities: InitTerminalCapabilities and GetTerminalCellSize *)

\* the goroutines of InitTerminalCapabilities and the callers of GetTerminalCellSize
Callers == ({"init"} \X (1..MaxInitCalls)) \cup ({"get"} \X (1..MaxGetCalls))
Getters == {p \in Callers : p[1] = "get"}

NoHolder == <<"none", 0>>

\* what DetectTerminalCellSize can return
DetectResults ==
    {DefaultCellSize} \cup {TerminalCellSize(w, h) : w \in 1..MaxPixels, h \in 1..MaxPixels}

\* NewTerminalCapabilities
CapsInit ==
    /\ cellSize = DefaultCellSize
    /\ onceDone = FALSE
    /\ onceHolder = NoHolder
    /\ cpc = [p \in Callers |-> "idle"]
    /\ got = [p \in Getters |-> NoSize]
    /\ detections = 0
    /\ detected = NoSize

CapsIdle ==
    /\ cellSize = DefaultCellSize
    /\ onceDone = FALSE
    /\ onceHolder = NoHolder
    /\ cpc = [p \in Callers |-> "off"]
    /\ got = [p \in Getters |-> NoSize]
    /\ detections = 0
    /\ detected = NoSize

\* where a caller goes on when Do returns: line 68, or the end of the goroutine
AfterDo(p) == IF p[1] = "get" THEN "read" ELSE "ret"

\* the mutex of the Once taken for free while another caller holds it
OnceBusy_Never == FALSE
\* sync.Once: the mutex is held
OnceBusy == onceHolder # NoHolder

\* lines 47, 61: a goroutine of InitTerminalCapabilities starts, or
\* GetTerminalCellSize is called
CallDo(p) ==
    /\ cpc[p] = "idle"
    /\ cpc' = [cpc EXCEPT ![p] = "do"]
    /\ UNCHANGED <<cellSize, onceDone, onceHolder, got, detections, detected>>
    /\ UNCHANGED <<resolveVars, findVars, quoteVars, detectVars>>

\* lines 49, 61, sync.Once.Do: the done flag is read
OnceCheck(p) ==
    /\ cpc[p] = "do"
    /\ cpc' = [cpc EXCEPT ![p] = IF onceDone THEN AfterDo(p) ELSE "lock"]
    /\ UNCHANGED <<cellSize, onceDone, onceHolder, got, detections, detected>>
    /\ UNCHANGED <<resolveVars, findVars, quoteVars, detectVars>>

\* lines 49-50, 61-62, sync.Once.Do: the mutex is taken and the flag read again;
\* DetectTerminalCellSize is called if it is still unset
OnceAcquire(p) ==
    /\ cpc[p] = "lock"
    /\ ~OnceBusy
    /\ IF onceDone
       THEN /\ cpc' = [cpc EXCEPT ![p] = AfterDo(p)]
            /\ UNCHANGED <<onceHolder, detections>>
       ELSE /\ cpc' = [cpc EXCEPT ![p] = "detect"]
            /\ onceHolder' = p
            /\ detections' = detections + 1
    /\ UNCHANGED <<cellSize, onceDone, got, detected>>
    /\ UNCHANGED <<resolveVars, findVars, quoteVars, detectVars>>

\* lines 50, 62: DetectTerminalCellSize returns and cellSize is assigned
DetectAssign(p) ==
    /\ cpc[p] = "detect"
    /\ \E size \in DetectResults :
        /\ cellSize' = size
        /\ detected' = size
    /\ cpc' = [cpc EXCEPT ![p] = "finish"]
    /\ UNCHANGED <<onceDone, onceHolder, got, detections>>
    /\ UNCHANGED <<resolveVars, findVars, quoteVars, detectVars>>

\* lines 54, 66, sync.Once.Do: the flag is set, the mutex released, Do returns
OnceFinish(p) ==
    /\ cpc[p] = "finish"
    /\ onceDone' = TRUE
    /\ onceHolder' = NoHolder
    /\ cpc' = [cpc EXCEPT ![p] = AfterDo(p)]
    /\ UNCHANGED <<cellSize, got, detections, detected>>
    /\ UNCHANGED <<resolveVars, findVars, quoteVars, detectVars>>

\* line 68
GetReturn(p) ==
    /\ cpc[p] = "read"
    /\ got' = [got EXCEPT ![p] = cellSize]
    /\ cpc' = [cpc EXCEPT ![p] = "ret"]
    /\ UNCHANGED <<cellSize, onceDone, onceHolder, detections, detected>>
    /\ UNCHANGED <<resolveVars, findVars, quoteVars, detectVars>>

----------------------------------------------------------------------------
(* resolveShellSubstitution and tokenizePromptCommand *)

ResolveInit ==
    /\ command \in SeqsUpTo(Runes, MaxCmdLen)
    /\ pc = "scan"
    /\ i = 0
    /\ resCommand = <<>>
    /\ resStr = <<>>
    /\ resErr = NoError
    /\ tokens = NilTokens
    /\ tokErr = NoError
    /\ fieldsCalls = 0
    /\ env = <<>>
    /\ calls = <<>>

ResolveIdle ==
    /\ command = <<>>
    /\ pc = "idle"
    /\ i = 0
    /\ resCommand = <<>>
    /\ resStr = <<>>
    /\ resErr = NoError
    /\ tokens = NilTokens
    /\ tokErr = NoError
    /\ fieldsCalls = 0
    /\ env = <<>>
    /\ calls = <<>>

\* line 29, and which of lines 31, 53 holds
AtDollar == pc = "scan" /\ i < Len(command) /\ i + 1 < Len(command) /\ At(command, i) = "$"
AtCurly == AtDollar /\ At(command, i + 1) = "{"
\* the closing bracket tested for in place of the opening one
AtRound_Closing == AtDollar /\ At(command, i + 1) = ")"
AtRound == AtDollar /\ At(command, i + 1) = "("

\* the index of the "$" handed over in place of that of the "{"
curlyEnd_FromDollar == findEndingParenthesis(command, i, "{", "}")
curlyEnd == findEndingParenthesis(command, i + 1, "{", "}")
\* the first ")" after the "(" taken for its match
roundEnd_FirstClose ==
    LET Z == {k \in i + 2 .. Len(command) - 1 : At(command, k) = ")"}
    IN  IF Z = {} THEN Len(command) ELSE Min(Z)
roundEnd == findEndingParenthesis(command, i + 1, "(", ")")

\* lines 41, 64: the text strictly between the brackets
envVarName_WithBrace == Slice(command, i + 1, curlyEnd)
envVarName == Slice(command, i + 2, curlyEnd)
subCmd == Slice(command, i + 2, roundEnd)

\* lines 51, 80: where the scan resumes after a span ending at end
AfterSpan_Inside(end) == i + 2
\* the scan resumed at the closing bracket
AfterSpan_AtClose(end) == end
AfterSpan(end) == end + 1

\* the string built so far returned together with the error
ReturnError_Partial(err) ==
    /\ resStr' = resCommand
    /\ resErr' = err
    /\ pc' = "resolved"

\* return "", err
ReturnError(err) ==
    /\ resStr' = <<>>
    /\ resErr' = err
    /\ pc' = "resolved"

\* the error of the other bracket kind returned
CurlyBracketError_RoundKind ==
    /\ AtCurly
    /\ curlyEnd = NotFound \/ curlyEnd = Len(command)
    /\ ReturnError(IF curlyEnd = NotFound THEN UnexpectedError ELSE bracketParMatchError)
    /\ UNCHANGED <<command, i, resCommand, tokens, tokErr, fieldsCalls, env, calls>>
    /\ UNCHANGED <<findVars, quoteVars, detectVars, capsVars>>

\* lines 33-39: the "{" has no usable end
CurlyBracketError ==
    /\ AtCurly
    /\ curlyEnd = NotFound \/ curlyEnd = Len(command)
    /\ ReturnError(IF curlyEnd = NotFound THEN UnexpectedError ELSE curlyBracketParMatchError)
    /\ UNCHANGED <<command, i, resCommand, tokens, tokErr, fieldsCalls, env, calls>>
    /\ UNCHANGED <<findVars, quoteVars, detectVars, capsVars>>

\* the environment read by os.LookupEnv: one value per name during a call
LookupEnv(name) ==
    IF \E k \in 1..Len(env) : env[k].name = name
    THEN {env[Min({k \in 1..Len(env) : env[k].name = name})].result}
    ELSE LookupResults

Remember(name, result) ==
    IF \E k \in 1..Len(env) : env[k].name = name
    THEN env
    ELSE Append(env, [name |-> name, result |-> result])

\* lines 41-51: ${NAME}
EnvSubstitution ==
    /\ AtCurly
    /\ curlyEnd # NotFound /\ curlyEnd # Len(command)
    /\ \E r \in LookupEnv(envVarName) :
            /\ env' = Remember(envVarName, r)
            /\ calls' = Append(calls, [kind |-> "env", start |-> i, end |-> curlyEnd,
                                       arg |-> envVarName, returned |-> TRUE,
                                       ok |-> r.ok, value |-> r.value,
                                       retCode |-> 0, err |-> "nil"])
            /\ IF ~r.ok
               THEN /\ ReturnError(envVarNotFoundError(envVarName))
                    /\ UNCHANGED <<i, resCommand>>
               ELSE /\ resCommand' = resCommand \o r.value
                    /\ i' = AfterSpan(curlyEnd)
                    /\ UNCHANGED <<resStr, resErr, pc>>
    /\ UNCHANGED <<command, tokens, tokErr, fieldsCalls>>
    /\ UNCHANGED <<findVars, quoteVars, detectVars, capsVars>>

\* lines 55-62: the "(" has no usable end
RoundBracketError ==
    /\ AtRound
    /\ roundEnd = NotFound \/ roundEnd = Len(command)
    /\ ReturnError(IF roundEnd = NotFound THEN UnexpectedError ELSE bracketParMatchError)
    /\ UNCHANGED <<command, i, resCommand, tokens, tokErr, fieldsCalls, env, calls>>
    /\ UNCHANGED <<findVars, quoteVars, detectVars, capsVars>>

\* lines 64-65: $(cmd), the executor is called
ShellInvoke ==
    /\ AtRound
    /\ roundEnd # NotFound /\ roundEnd # Len(command)
    /\ calls' = Append(calls, [kind |-> "exec", start |-> i, end |-> roundEnd,
                               arg |-> subCmd, returned |-> FALSE,
                               ok |-> FALSE, value |-> <<>>,
                               retCode |-> 0, err |-> "nil"])
    /\ pc' = "exec"
    /\ UNCHANGED <<command, i, resCommand, resStr, resErr, tokens, tokErr, fieldsCalls, env>>
    /\ UNCHANGED <<findVars, quoteVars, detectVars, capsVars>>

\* the output of a command that exits with a non-zero status left out
ShellResult_OnlyZeroOutput(cmd, end, out) ==
    IF out.retCode = LaunchFailed
    THEN /\ ReturnError(ShellSubstitutionError(cmd, out.err))
         /\ UNCHANGED <<i, resCommand>>
    ELSE /\ resCommand' = (IF out.retCode = 0 THEN resCommand \o out.output ELSE resCommand)
         /\ i' = AfterSpan(end)
         /\ pc' = "scan"
         /\ UNCHANGED <<resStr, resErr>>

\* every non-zero status taken for a failure
ShellResult_NonZeroFails(cmd, end, out) ==
    IF out.retCode # 0
    THEN /\ ReturnError(ShellSubstitutionError(cmd, out.err))
         /\ UNCHANGED <<i, resCommand>>
    ELSE /\ resCommand' = resCommand \o out.output
         /\ i' = AfterSpan(end)
         /\ pc' = "scan"
         /\ UNCHANGED <<resStr, resErr>>

\* lines 67-80: what is done with (retCode, output, err)
ShellResult(cmd, end, out) ==
    IF out.retCode = LaunchFailed
    THEN /\ ReturnError(ShellSubstitutionError(cmd, out.err))
         /\ UNCHANGED <<i, resCommand>>
    ELSE /\ resCommand' = resCommand \o out.output
         /\ i' = AfterSpan(end)
         /\ pc' = "scan"
         /\ UNCHANGED <<resStr, resErr>>

\* lines 65-80: the executor returns
ShellReturn ==
    /\ pc = "exec"
    /\ LET n == Len(calls)
       IN  \E out \in ExecuteCommandInShell :
            /\ calls' = [calls EXCEPT ![n] = [@ EXCEPT !.returned = TRUE,
                                                        !.ok = out.retCode # LaunchFailed,
                                                        !.value = out.output,
                                                        !.retCode = out.retCode,
                                                        !.err = out.err]]
            /\ ShellResult(calls[n].arg, calls[n].end, out)
    /\ UNCHANGED <<command, tokens, tokErr, fieldsCalls, env>>
    /\ UNCHANGED <<findVars, quoteVars, detectVars, capsVars>>

\* lines 81-84: a "$" that starts no span
CopyDollar ==
    /\ AtDollar
    /\ ~AtCurly /\ ~AtRound
    /\ resCommand' = Append(resCommand, At(command, i))
    /\ i' = i + 1
    /\ UNCHANGED <<command, pc, resStr, resErr, tokens, tokErr, fieldsCalls, env, calls>>
    /\ UNCHANGED <<findVars, quoteVars, detectVars, capsVars>>

\* lines 85-88: any other rune, and a "$" that is the last rune
CopyRune ==
    /\ pc = "scan"
    /\ i < Len(command)
    /\ ~AtDollar
    /\ resCommand' = Append(resCommand, At(command, i))
    /\ i' = i + 1
    /\ UNCHANGED <<command, pc, resStr, resErr, tokens, tokErr, fieldsCalls, env, calls>>
    /\ UNCHANGED <<findVars, quoteVars, detectVars, capsVars>>

\* line 92
ResolveReturn ==
    /\ pc = "scan"
    /\ ~(i < Len(command))
    /\ resStr' = resCommand
    /\ resErr' = NoError
    /\ pc' = "resolved"
    /\ UNCHANGED <<command, i, resCommand, tokens, tokErr, fieldsCalls, env, calls>>
    /\ UNCHANGED <<findVars, quoteVars, detectVars, capsVars>>

\* tokenizePromptCommand lines 16-18
TokenizeError ==
    /\ pc = "resolved"
    /\ resErr # NoError
    /\ tokens' = NilTokens
    /\ tokErr' = resErr
    /\ pc' = "done"
    /\ UNCHANGED <<command, i, resCommand, resStr, resErr, fieldsCalls, env, calls>>
    /\ UNCHANGED <<findVars, quoteVars, detectVars, capsVars>>

\* tokenizePromptCommand line 19
TokenizeFields ==
    /\ pc = "resolved"
    /\ resErr = NoError
    /\ tokens' = Fields(resStr)
    /\ fieldsCalls' = fieldsCalls + 1
    /\ tokErr' = NoError
    /\ pc' = "done"
    /\ UNCHANGED <<command, i, resCommand, resStr, resErr, env, calls>>
    /\ UNCHANGED <<findVars, quoteVars, detectVars, capsVars>>

----------------------------------------------------------------------------
(* Specifications *)

Init == ResolveInit /\ FindIdle /\ QuoteIdle /\ DetectIdle /\ CapsIdle

Next ==
    \/ CurlyBracketError
    \/ EnvSubstitution
    \/ RoundBracketError
    \/ ShellInvoke
    \/ ShellReturn
    \/ CopyDollar
    \/ CopyRune
    \/ ResolveReturn
    \/ TokenizeError
    \/ TokenizeFields

Spec == Init /\ [][Next]_vars

InitFind == ResolveIdle /\ FindInit /\ QuoteIdle /\ DetectIdle /\ CapsIdle

NextFind == FindCall

SpecFind == InitFind /\ [][NextFind]_vars

\* tokenizePromptCommand runs on: each step of the call is taken in the end, the
\* return of the executor included
SpecLive == Init /\ [][Next]_vars /\ WF_vars(Next)

\* tokenizePromptCommand on commands with white space, control and quote runes
TokInit ==
    /\ command \in SeqsUpTo(TokRunes, MaxTokLen)
    /\ pc = "scan"
    /\ i = 0
    /\ resCommand = <<>>
    /\ resStr = <<>>
    /\ resErr = NoError
    /\ tokens = NilTokens
    /\ tokErr = NoError
    /\ fieldsCalls = 0
    /\ env = <<>>
    /\ calls = <<>>

InitTok == TokInit /\ FindIdle /\ QuoteIdle /\ DetectIdle /\ CapsIdle

SpecTok == InitTok /\ [][Next]_vars

InitQuote == ResolveIdle /\ FindIdle /\ QuoteInit /\ DetectIdle /\ CapsIdle

NextQuote == QuoteCall

SpecQuote == InitQuote /\ [][NextQuote]_vars

\* DetectTerminalCellSize called on its own
InitDetect == ResolveIdle /\ FindIdle /\ QuoteIdle /\ DetectInit /\ CapsIdle

NextDetect ==
    \/ DetectStart
    \/ ReaderRead
    \/ ReaderSend
    \/ MainReceive
    \/ MainTimeout
    \/ MainParse

SpecDetect == InitDetect /\ [][NextDetect]_vars

\* one TerminalCapabilities and its callers
InitCaps == ResolveIdle /\ FindIdle /\ QuoteIdle /\ DetectIdle /\ CapsInit

NextCaps ==
    \E p \in Callers :
        \/ CallDo(p)
        \/ OnceCheck(p)
        \/ OnceAcquire(p)
        \/ DetectAssign(p)
        \/ OnceFinish(p)
        \/ GetReturn(p)

SpecCaps == InitCaps /\ [][NextCaps]_vars

----------------------------------------------------------------------------
(* Reference definitions: bracket depth, stated without the loop *)

\* depth after rune j of a counter that is 1 at the opening rune k, rises at each
\* later open and falls at each later close
Depth(seq, k, j, open, close) ==
    1 + Cardinality({m \in k + 1 .. j : At(seq, m) = open})
      - Cardinality({m \in k + 1 .. j : At(seq, m) = close})

\* the indices after k at which the depth is 0
ZeroDepth(seq, k, open, close) ==
    {j \in k + 1 .. Len(seq) - 1 : Depth(seq, k, j, open, close) = 0}

\* every rune that is neither open nor close replaced by c
Neutralised(seq, open, close, c) ==
    [m \in DOMAIN seq |-> IF seq[m] \in {open, close} THEN seq[m] ELSE c]

FindPrecondition == fOpenIdx >= 0 /\ fOpenIdx < Len(fSeq) /\ At(fSeq, fOpenIdx) = fOpen

----------------------------------------------------------------------------
(* Claims about findEndingParenthesis, checked under SpecFind *)

\* C1: called on an opening rune with open # close, findEndingParenthesis returns
\* the smallest later index at which the depth counter reaches 0, which holds the
\* closing rune (C2 covers the sequence that ends before the depth reaches 0); the
\* runes that are neither open nor close do not affect the result.
C1_MatchingClose ==
    (fPc = "ret" /\ FindPrecondition /\ fOpen # fClose) =>
        /\ ZeroDepth(fSeq, fOpenIdx, fOpen, fClose) # {} =>
            /\ fRes = Min(ZeroDepth(fSeq, fOpenIdx, fOpen, fClose))
            /\ At(fSeq, fRes) = fClose
        /\ \A c \in Runes \ {fOpen, fClose} :
            findEndingParenthesis(Neutralised(fSeq, fOpen, fClose, c), fOpenIdx, fOpen, fClose) = fRes

\* a nested pair and a rune of another kind lie between the opening rune and its match
C1_Witness ==
    /\ fPc = "ret" /\ FindPrecondition /\ fOpen # fClose
    /\ fRes < Len(fSeq)
    /\ \E m \in fOpenIdx + 1 .. fRes - 1 : At(fSeq, m) = fOpen
    /\ \E m \in fOpenIdx + 1 .. fRes - 1 : At(fSeq, m) \notin {fOpen, fClose}

\* C2: the result is -1 exactly when openIdx is out of bounds or does not hold the
\* opening rune; otherwise it lies in (openIdx, len], and it is len exactly when the
\* depth never reaches 0.
C2_Sentinels ==
    fPc = "ret" =>
        /\ fRes = -1 <=> ~FindPrecondition
        /\ FindPrecondition =>
            /\ fOpenIdx < fRes /\ fRes <= Len(fSeq)
            /\ fRes = Len(fSeq) <=> ZeroDepth(fSeq, fOpenIdx, fOpen, fClose) = {}

\* an unterminated sequence in which the depth rose and fell but did not reach 0
C2_Witness ==
    /\ fPc = "ret" /\ FindPrecondition /\ fOpen # fClose
    /\ fRes = Len(fSeq)
    /\ \E m \in fOpenIdx + 1 .. Len(fSeq) - 1 : At(fSeq, m) = fClose

----------------------------------------------------------------------------
(* Reference definitions: the substitution spans of a raw command *)

CloseOf(open) == IF open = "{" THEN "}" ELSE ")"

\* a "${" or "$(" starts at p
SpanStart(raw, p) ==
    p >= 0 /\ p + 1 < Len(raw) /\ At(raw, p) = "$" /\ At(raw, p + 1) \in {"{", "("}

\* index of the bracket closing the span that starts at p, Len(raw) if there is none
SpanEnd(raw, p) ==
    LET open == At(raw, p + 1)
        Z == ZeroDepth(raw, p + 1, open, CloseOf(open))
    IN  IF Z = {} THEN Len(raw) ELSE Min(Z)

SpanKind(raw, p) == IF At(raw, p + 1) = "{" THEN "env" ELSE "exec"

\* the spans met reading left to right, none inside another; an unterminated span ends the list
RECURSIVE TopSpansFrom(_, _)
TopSpansFrom(raw, p) ==
    IF p >= Len(raw) THEN <<>>
    ELSE IF SpanStart(raw, p)
         THEN <<[start |-> p, end |-> SpanEnd(raw, p), kind |-> SpanKind(raw, p)]>>
              \o (IF SpanEnd(raw, p) = Len(raw) THEN <<>> ELSE TopSpansFrom(raw, SpanEnd(raw, p) + 1))
         ELSE TopSpansFrom(raw, p + 1)

TopSpans(raw) == TopSpansFrom(raw, 0)

\* a terminated span starts somewhere in s
HasSpan(s) == \E p \in 0 .. Len(s) - 2 : SpanStart(s, p) /\ SpanEnd(s, p) < Len(s)

Returned == pc \in {"resolved", "done"}
Succeeded == Returned /\ resErr = NoError
LastCall == calls[Len(calls)]

\* the value the environment holds for name, as far as it was read
StoredValue(name) ==
    IF \E k \in 1..Len(env) : env[k].name = name /\ env[k].result.ok
    THEN (CHOOSE e \in {env[k] : k \in 1..Len(env)} : e.name = name).result.value
    ELSE <<"?">>

\* raw from p on, with the k-th and later calls' results in place of the top-level spans
RECURSIVE ExpectedFrom(_, _, _)
ExpectedFrom(raw, p, k) ==
    IF p >= Len(raw) THEN <<>>
    ELSE IF SpanStart(raw, p)
         THEN LET end == SpanEnd(raw, p)
                  inner == Slice(raw, p + 2, end)
                  text == IF k > Len(calls) THEN <<"?">>
                          ELSE IF calls[k].kind # SpanKind(raw, p) \/ calls[k].arg # inner THEN <<"?">>
                          ELSE IF calls[k].kind = "env" THEN StoredValue(inner)
                          ELSE calls[k].value
              IN  text \o (IF end = Len(raw) THEN <<>> ELSE ExpectedFrom(raw, end + 1, k + 1))
         ELSE <<At(raw, p)>> \o ExpectedFrom(raw, p + 1, k)

----------------------------------------------------------------------------
(* Claims about resolveShellSubstitution and tokenizePromptCommand, checked under Spec *)

\* C3: a successful resolveShellSubstitution returns the raw command with every
\* top-level ${NAME} replaced by the stored value of NAME, every top-level $(cmd)
\* replaced by the output the executor returned for cmd, whatever its exit status,
\* and every other rune copied in place; a command without "${" and "$(" is
\* returned as it is.
C3_Substituted ==
    Succeeded =>
        /\ resStr = ExpectedFrom(command, 0, 1)
        /\ (\A p \in 0 .. Len(command) - 1 : ~SpanStart(command, p)) => resStr = command

\* success after a variable and a sub-command that exited non-zero with output
C3_Witness ==
    /\ Succeeded
    /\ \E k \in 1..Len(calls) : calls[k].kind = "env" /\ calls[k].value # <<>>
    /\ \E k \in 1..Len(calls) :
        calls[k].kind = "exec" /\ calls[k].retCode = 1 /\ calls[k].value # <<>>

\* the scan is at a "${" or "$(" that has no matching close
ReachedUnterminated ==
    pc = "scan" /\ SpanStart(command, i) /\ SpanEnd(command, i) = Len(command)

MismatchErrorOf(raw, p) ==
    IF At(raw, p + 1) = "{" THEN curlyBracketParMatchError ELSE bracketParMatchError

C4_Step ==
    ReachedUnterminated =>
        /\ pc' = "resolved"
        /\ resStr' = <<>>
        /\ resErr' = MismatchErrorOf(command, i)
        /\ calls' = calls
        /\ env' = env

C4_Leftmost ==
    (Returned /\ resErr \in {curlyBracketParMatchError, bracketParMatchError}) =>
        LET T == TopSpans(command)
        IN  /\ T # <<>>
            /\ T[Len(T)].end = Len(command)
            /\ T[Len(T)].start = i
            /\ resErr = MismatchErrorOf(command, i)
            /\ Len(calls) = Len(T) - 1

\* C4: when the scan reaches an unterminated "${" the call fails with the curly
\* bracket error, an unterminated "$(" with the round bracket error, with no lookup
\* and no executor call for that span; the error is that of the first unterminated
\* span the scan reaches.
C4_BracketMismatch == [][C4_Step]_vars /\ [](C4_Leftmost)

\* a curly bracket error after an earlier span was resolved
C4_Witness ==
    /\ Returned
    /\ resErr = curlyBracketParMatchError
    /\ calls # <<>>

\* C5: the key of a lookup is the text strictly between "{" and its matching "}",
\* nothing inside it is substituted or executed, and an absent key fails the call
\* with envVarNotFoundError carrying that key.
C5_VerbatimKey ==
    /\ \A k \in 1..Len(calls) : calls[k].kind = "env" =>
        LET c == calls[k]
        IN  /\ SpanStart(command, c.start) /\ At(command, c.start + 1) = "{"
            /\ c.end = SpanEnd(command, c.start) /\ c.end < Len(command)
            /\ c.arg = Slice(command, c.start + 2, c.end)
            /\ \A j \in 1..Len(calls) : ~(c.start < calls[j].start /\ calls[j].start <= c.end)
            /\ ~c.ok => /\ k = Len(calls)
                        /\ Returned
                        /\ resErr = envVarNotFoundError(c.arg)
                        /\ resStr = <<>>
    /\ resErr.kind = "envVarNotFoundError" =>
        calls # <<>> /\ LastCall.kind = "env" /\ ~LastCall.ok

\* an absent key that contains a "$(...)"
C5_Witness ==
    /\ Returned
    /\ calls # <<>> /\ LastCall.kind = "env" /\ ~LastCall.ok
    /\ HasSpan(LastCall.arg)
    /\ resErr.arg = LastCall.arg

C6_Step ==
    pc = "exec" =>
        LET c == calls'[Len(calls')]
        IN  IF c.retCode = -1
            THEN /\ pc' = "resolved"
                 /\ resErr' = [kind |-> "shellSubstitution", arg |-> c.arg, cause |-> c.err]
                 /\ resStr' = <<>>
            ELSE /\ pc' = "scan"
                 /\ resErr' = NoError
                 /\ resCommand' = resCommand \o c.value
                 /\ i' = c.end + 1

C6_OnlyLaunch ==
    resErr.kind = "shellSubstitution" =>
        calls # <<>> /\ LastCall.kind = "exec" /\ LastCall.returned /\ LastCall.retCode = -1

\* C6: a "$(cmd)" fails the call, with the error that wraps the executor's error and
\* names cmd, exactly when the executor returns -1; with any other exit code the
\* output is appended and the scan goes on after the ")".
C6_LaunchFailure == [][C6_Step]_vars /\ [](C6_OnlyLaunch)

\* a sub-command exited non-zero and the scan went on with its output
C6_Witness ==
    /\ pc = "scan"
    /\ calls # <<>> /\ LastCall.kind = "exec" /\ LastCall.returned
    /\ LastCall.retCode = 1 /\ LastCall.value # <<>>
    /\ i = LastCall.end + 1

\* the last sub-command outlived the timeout
TimedOut ==
    calls # <<>> /\ LastCall.kind = "exec" /\ LastCall.returned
    /\ LastCall.err = "DeadlineExceeded"

C8_TotalFailure ==
    /\ (Returned /\ resErr # NoError) => resStr = <<>>
    /\ (pc = "done" /\ resErr # NoError) =>
        tokErr = resErr /\ tokens = NilTokens /\ fieldsCalls = 0

\* a failure after text had been collected
C8_Witness ==
    /\ pc = "done"
    /\ resErr # NoError
    /\ resCommand # <<>>

C9_Order ==
    /\ \A k \in 1 .. Len(calls) - 1 :
        calls[k].returned /\ calls[k].end < calls[k + 1].start
    /\ pc = "exec" <=> (calls # <<>> /\ ~LastCall.returned)
    /\ Len(calls) <= Len(TopSpans(command))
    /\ \A k \in 1..Len(calls) :
        [start |-> calls[k].start, end |-> calls[k].end, kind |-> calls[k].kind]
            = TopSpans(command)[k]
    /\ Succeeded => Len(calls) = Len(TopSpans(command))

C9_Step == resErr # NoError => (calls' = calls /\ env' = env)

\* C9: lookups and executor calls are made in the textual order of their spans,
\* each after the previous one returned; the spans do not overlap, every top-level
\* span is resolved once, and nothing is looked up or executed after an error.
C9_LeftToRight == [][C9_Step]_vars /\ [](C9_Order)

\* two spans resolved, the second a sub-command
C9_Witness ==
    /\ Succeeded
    /\ Len(calls) = 2
    /\ LastCall.kind = "exec"

\* a substituted text that cannot make up a span with its neighbours
Plain(v) ==
    /\ v # <<>>
    /\ v[1] \notin {"{", "("}
    /\ \A m \in 1..Len(v) : v[m] # "$"

\* C10 as stated: no successful result holds a terminated "${...}" or "$(...)".
C10_Original == Succeeded => ~HasSpan(resStr)

\* C10 amended: no successful result holds a terminated span, provided every value
\* and output substituted is non-empty, has no "$" and does not begin with "{" or "(".
C10_NoSpanFromPlainValues ==
    (Succeeded /\ \A k \in 1..Len(calls) : Plain(calls[k].value)) => ~HasSpan(resStr)

\* success with a copied "$" next to a substituted plain value
C10_Witness ==
    /\ Succeeded
    /\ calls # <<>>
    /\ \A k \in 1..Len(calls) : Plain(calls[k].value)
    /\ \E m \in 1..Len(resStr) : resStr[m] = "$"

\* a terminated "$(...)" starts at p and holds a "${" or "$(" between its brackets
NestedSpan(raw, p) ==
    /\ SpanStart(raw, p)
    /\ At(raw, p + 1) = "("
    /\ SpanEnd(raw, p) < Len(raw)
    /\ \E q \in p + 2 .. SpanEnd(raw, p) - 2 : SpanStart(raw, q)

TopStarts(raw) == {TopSpans(raw)[k].start : k \in 1..Len(TopSpans(raw))}

CallsAt(p) == {k \in 1..Len(calls) : calls[k].start = p}

C17_Frame ==
    \A p \in 0 .. Len(command) - 2 :
        (NestedSpan(command, p) /\ p \in TopStarts(command)) =>
            LET e == SpanEnd(command, p)
            IN  /\ \A k \in 1..Len(calls) : ~(calls[k].start > p /\ calls[k].start <= e)
                /\ Cardinality(CallsAt(p)) <= 1
                /\ \A k \in CallsAt(p) :
                    /\ calls[k].kind = "exec"
                    /\ calls[k].end = e
                    /\ calls[k].arg = Slice(command, p + 2, e)
                /\ (i > p \/ (pc = "exec" /\ i = p)) => Cardinality(CallsAt(p)) = 1

C17_Step ==
    (pc = "exec" /\ pc' = "scan" /\ NestedSpan(command, i)) =>
        /\ i' = SpanEnd(command, i) + 1
        /\ Len(calls') = Len(calls)

\* C17: for a terminated "$(...)" that holds a "${" or "$(", the executor is called
\* once, with exactly the runes between the outer "(" and its matching ")"; no lookup
\* or call is made for a span inside it, and the scan resumes one past the outer ")".
C17_OuterOnly == [][C17_Step]_vars /\ [](C17_Frame)

\* success after one call for a "$(...)" that holds another span
C17_Witness ==
    /\ Succeeded
    /\ Len(calls) = 1
    /\ NestedSpan(command, calls[1].start)
    /\ calls[1].returned
    /\ i > calls[1].end

----------------------------------------------------------------------------
(* Claims about the tokens of tokenizePromptCommand, checked under SpecTok *)

Done == pc = "done"

\* no "${" and no "$(" in raw
NoSubstitution(raw) == \A p \in 0 .. Len(raw) - 1 : ~SpanStart(raw, p)

\* C11 as stated: on success the tokens are those of the quote-aware tokenizer for
\* the resolved string, quoting and escaping stripped.
C11_Original ==
    (Done /\ tokErr = NoError) =>
        /\ tokenizeWithQuotes(resStr).err = "nil"
        /\ tokens = tokenizeWithQuotes(resStr).tokens

\* first rune of each maximal run of runes outside seps, as 1-based positions
RunStarts(raw, seps) ==
    {a \in 1..Len(raw) : raw[a] \notin seps /\ (a = 1 \/ raw[a - 1] \in seps)}

\* last rune of the run that starts at a
RunEnd(raw, seps, a) ==
    Min({b \in a..Len(raw) : b = Len(raw) \/ raw[b + 1] \in seps})

\* toks are, in order, the maximal runs of runes of raw outside seps
IsRunsOf(toks, raw, seps) ==
    /\ Len(toks) = Cardinality(RunStarts(raw, seps))
    /\ \A a \in RunStarts(raw, seps) :
        toks[Cardinality({x \in RunStarts(raw, seps) : x < a}) + 1]
            = SubSeq(raw, a, RunEnd(raw, seps, a))
    /\ \A k \in 1..Len(toks) :
        toks[k] # <<>> /\ \A m \in 1..Len(toks[k]) : toks[k][m] \notin seps
    /\ (\A a \in 1..Len(raw) : raw[a] \in seps) => toks = <<>>

\* C12 as stated: the separators are space, tab, newline and vertical tab, every other
\* control character is an ordinary token character.
C12_Original ==
    (Done /\ NoSubstitution(command)) =>
        /\ tokErr = NoError
        /\ tokens # NilTokens
        /\ IsRunsOf(tokens, command, {" ", "\t", "\n", "VT"})

\* C12 amended: a command with no "${" and no "$(" is tokenized without error into the
\* maximal runs of runes other than space, tab, newline, vertical tab, form feed and
\* carriage return, in order; no token is empty or holds one of these, the bell and a
\* bare "(" are token runes, and an empty or all-blank command gives an empty list
\* that is not nil.
C12_MaximalRuns ==
    (Done /\ NoSubstitution(command)) =>
        /\ tokErr = NoError
        /\ tokens # NilTokens
        /\ IsRunsOf(tokens, command, {" ", "\t", "\n", "VT", "\f", "\r"})

\* two tokens split by a form feed or a carriage return, one holding a bell or a "("
C12_Witness ==
    /\ Done
    /\ NoSubstitution(command)
    /\ tokErr = NoError
    /\ Len(tokens) = 2
    /\ \E a \in 1..Len(command) : command[a] \in {"\f", "\r"}
    /\ \E a \in 1..Len(command) : command[a] \in {"BEL", "("}

----------------------------------------------------------------------------
(* Claims about tokenizeWithQuotes, checked under SpecQuote *)

QuoteReturned == qPc = "ret"

Quotes == {"'", "\""}

\* the three pieces of qText cut after its a-th and its b-th rune
Piece1(a) == SubSeq(qText, 1, a)
Piece2(a, b) == SubSeq(qText, a + 1, b)
Piece3(b) == SubSeq(qText, b + 1, Len(qText))
Cuts == {c \in (0..Len(qText)) \X (0..Len(qText)) : c[1] <= c[2]}

\* P is a quote, runes that are neither that quote nor a backslash, and the quote again
IsQuotedRun(P) ==
    /\ Len(P) >= 2
    /\ P[1] \in Quotes
    /\ P[Len(P)] = P[1]
    /\ \A m \in 2 .. Len(P) - 1 : P[m] # P[1] /\ P[m] # "\\"

Body(P) == SubSeq(P, 2, Len(P) - 1)

\* P is bare text with no quote, no backslash and no white space
IsBareWord(P) == P # <<>> /\ \A m \in 1..Len(P) : P[m] = "a"

\* P is bare words and blanks only
IsBareText(P) == \A m \in 1..Len(P) : P[m] \in {"a", " "}

\* C13: a closing quote completes a token: two quoted runs with nothing between them
\* give two tokens, a third quoted run or a bare word right after them gives a third,
\* and a bare word right after one quoted run is a token of its own.
C13_ClosingCompletes ==
    QuoteReturned =>
        \A c \in Cuts :
            LET P1 == Piece1(c[1])
                P2 == Piece2(c[1], c[2])
                P3 == Piece3(c[2])
            IN  /\ (IsQuotedRun(P1) /\ IsQuotedRun(P2) /\ P3 = <<>>) =>
                        (qErr = "nil" /\ qTokens = <<Body(P1), Body(P2)>>)
                /\ (IsQuotedRun(P1) /\ IsQuotedRun(P2) /\ IsQuotedRun(P3)) =>
                        (qErr = "nil" /\ qTokens = <<Body(P1), Body(P2), Body(P3)>>)
                /\ (IsQuotedRun(P1) /\ IsQuotedRun(P2) /\ IsBareWord(P3)) =>
                        (qErr = "nil" /\ qTokens = <<Body(P1), Body(P2), P3>>)
                /\ (IsQuotedRun(P1) /\ IsBareWord(P2) /\ P3 = <<>>) =>
                        (qErr = "nil" /\ qTokens = <<Body(P1), P2>>)

\* three quoted runs with nothing between them, the first unlike the last
C13_Witness ==
    /\ QuoteReturned
    /\ qErr = "nil"
    /\ \E c \in Cuts :
        IsQuotedRun(Piece1(c[1])) /\ IsQuotedRun(Piece2(c[1], c[2])) /\ IsQuotedRun(Piece3(c[2]))
    /\ Len(qTokens) = 3
    /\ qTokens[1] # qTokens[3]

\* the text between double quotes read piece by piece: a backslash and the rune after
\* it are one piece; ok is FALSE at an unescaped double quote or a lone last backslash
RECURSIVE DoublePieces(_)
DoublePieces(X) ==
    IF X = <<>> THEN [ok |-> TRUE, out |-> <<>>]
    ELSE IF X[1] = "\""  THEN [ok |-> FALSE, out |-> <<>>]
    ELSE IF X[1] = "\\"
         THEN IF Len(X) = 1 THEN [ok |-> FALSE, out |-> <<>>]
              ELSE LET rest == DoublePieces(SubSeq(X, 3, Len(X)))
                       piece == IF X[2] \in {"\"", "\\"} THEN <<X[2]>> ELSE <<"\\", X[2]>>
                   IN  [ok |-> rest.ok, out |-> piece \o rest.out]
    ELSE LET rest == DoublePieces(SubSeq(X, 2, Len(X)))
         IN  [ok |-> rest.ok, out |-> <<X[1]>> \o rest.out]

\* C14: inside double quotes a backslash before a double quote or a backslash gives
\* that rune alone, a backslash before any other rune gives both; a single quote is
\* an ordinary rune, and only a double quote with no backslash before it closes.
C14_DoubleQuoteEscapes ==
    (QuoteReturned /\ qText # <<>> /\ qText[1] = "\"") =>
        /\ (/\ Len(qText) >= 2
            /\ qText[Len(qText)] = "\""
            /\ DoublePieces(SubSeq(qText, 2, Len(qText) - 1)).ok) =>
                /\ qErr = "nil"
                /\ qTokens = <<DoublePieces(SubSeq(qText, 2, Len(qText) - 1)).out>>
        /\ DoublePieces(SubSeq(qText, 2, Len(qText))).ok => qErr = UnterminatedQuote

\* one double-quoted token with an escaped quote, a kept backslash and a single quote
C14_Witness ==
    /\ QuoteReturned
    /\ qErr = "nil"
    /\ qText # <<>>
    /\ qText[1] = "\""
    /\ Len(qTokens) = 1
    /\ \E m \in 1 .. Len(qTokens[1]) - 1 : qTokens[1][m] = "\\" /\ qTokens[1][m + 1] = "a"
    /\ \E m \in 1 .. Len(qTokens[1]) : qTokens[1][m] = "\""
    /\ \E m \in 1 .. Len(qTokens[1]) : qTokens[1][m] = "'"

\* C15: input that ends inside single or double quotes fails with UnterminatedQuote,
\* a backslash that ends the input in bare mode or inside double quotes fails with
\* DanglingEscape, and every error comes with a nil token list, complete tokens
\* before it or not.
C15_ErrorsReturnNil ==
    QuoteReturned =>
        /\ qErr \in {"nil", UnterminatedQuote, DanglingEscape}
        /\ qErr # "nil" => qTokens = NilTokens
        /\ \A c \in Cuts :
            LET P1 == Piece1(c[1])
                P2 == Piece2(c[1], c[2])
                P3 == Piece3(c[2])
            IN  /\ (/\ IsBareText(P1) /\ (P1 = <<>> \/ P1[Len(P1)] = " ")
                    /\ Len(P2) = 1 /\ P2[1] \in Quotes
                    /\ \A m \in 1..Len(P3) : P3[m] # P2[1] /\ P3[m] # "\\") =>
                        (qErr = UnterminatedQuote /\ qTokens = NilTokens)
                /\ (IsBareText(P1) /\ P2 = <<"\\">> /\ P3 = <<>>) =>
                        (qErr = DanglingEscape /\ qTokens = NilTokens)
                /\ (/\ IsBareText(P1) /\ (P1 = <<>> \/ P1[Len(P1)] = " ")
                    /\ Len(P2) >= 1 /\ P2[1] = "\""
                    /\ \A m \in 2..Len(P2) : P2[m] \in {"a", " ", "'"}
                    /\ P3 = <<"\\">>) =>
                        (qErr = DanglingEscape /\ qTokens = NilTokens)

\* a complete token, then a quote that is never closed
C15_Witness ==
    /\ QuoteReturned
    /\ qErr = UnterminatedQuote
    /\ qTokens = NilTokens
    /\ Len(qText) >= 4
    /\ qText[1] = "a"
    /\ qText[2] = " "
    /\ qText[3] \in Quotes

\* C16: an empty pair of quotes standing alone in bare text gives one token that is
\* the empty string, in its place among the other tokens; empty or all-blank input
\* gives no token.
C16_EmptyPair ==
    QuoteReturned =>
        /\ (\A m \in 1..Len(qText) : qText[m] = " ") => (qErr = "nil" /\ qTokens = <<>>)
        /\ \A c \in Cuts :
            LET P1 == Piece1(c[1])
                P2 == Piece2(c[1], c[2])
                P3 == Piece3(c[2])
                n == Cardinality(RunStarts(P1, {" "}))
            IN  (/\ IsBareText(P1) /\ (P1 = <<>> \/ P1[Len(P1)] = " ")
                 /\ P2 \in {<<"'", "'">>, <<"\"", "\"">>}
                 /\ IsBareText(P3) /\ (P3 = <<>> \/ P3[1] = " ")) =>
                    /\ qErr = "nil"
                    /\ Len(qTokens) > n
                    /\ IsRunsOf(SubSeq(qTokens, 1, n), P1, {" "})
                    /\ qTokens[n + 1] = <<>>
                    /\ IsRunsOf(SubSeq(qTokens, n + 2, Len(qTokens)), P3, {" "})

\* a word, then an empty pair of quotes
C16_Witness ==
    /\ QuoteReturned
    /\ qErr = "nil"
    /\ Len(qText) >= 4
    /\ qText[1] = "a"
    /\ qText[2] = " "
    /\ qText[3] \in Quotes
    /\ qText[4] = qText[3]
    /\ qTokens = <<<<"a">>, <<>>>>

----------------------------------------------------------------------------
(* Claims about DetectTerminalCellSize, checked under SpecDetect *)

DetectReturned == mainPc = "ret"

\* X is written as a decimal number with an optional sign
IsNumeral(X) ==
    LET d == IF X # <<>> /\ X[1] \in {"+", "-"} THEN Tail(X) ELSE X
    IN  d # <<>> /\ \A k \in 1..Len(d) : d[k] \in {"0", "1"}

RECURSIVE PlaceSum(_, _)
PlaceSum(d, k) ==
    IF k > Len(d) THEN 0
    ELSE (IF d[k] = "1" THEN 10 ^ (Len(d) - k) ELSE 0) + PlaceSum(d, k + 1)

NumeralValue(X) ==
    IF X[1] = "-" THEN 0 - PlaceSum(Tail(X), 1)
    ELSE IF X[1] = "+" THEN PlaceSum(Tail(X), 1)
    ELSE PlaceSum(X, 1)

\* the (height, width) pairs that resp holds as "ESC[6;height;width", the width ending
\* with the text or at a "t" or ";", both strictly positive
ReplySizes(resp) ==
    {<<NumeralValue(SubSeq(resp, 5, c[1])), NumeralValue(SubSeq(resp, c[1] + 2, c[2]))>> :
        c \in {d \in (4..Len(resp)) \X (4..Len(resp)) :
                /\ SubSeq(resp, 1, 4) = <<"ESC", "[", "6", ";">>
                /\ d[1] + 1 < d[2]
                /\ resp[d[1] + 1] = ";"
                /\ IsNumeral(SubSeq(resp, 5, d[1]))
                /\ IsNumeral(SubSeq(resp, d[1] + 2, d[2]))
                /\ NumeralValue(SubSeq(resp, 5, d[1])) > 0
                /\ NumeralValue(SubSeq(resp, d[1] + 2, d[2])) > 0
                /\ (d[2] = Len(resp) \/ resp[d[2] + 1] \in {"t", ";"})}}

\* the read gave a response and the select took it
Arrived == ~timedOut /\ ~stdin.err

\* C19: the returned size is the parsed (width, height) only when the response was
\* received before the timeout and is a CSI 16t reply with height and width strictly
\* positive; after a timeout, a read error, or a response without the marker or with
\* a field that is not a positive number, it is 10 by 20; both fields are positive.
C19_ParsedOrDefaults ==
    DetectReturned =>
        /\ (Arrived /\ ReplySizes(stdin.data) # {}) =>
                \A hw \in ReplySizes(stdin.data) :
                    detResult = [PixelsPerColumn |-> hw[2], PixelsPerRow |-> hw[1]]
        /\ ~(Arrived /\ ReplySizes(stdin.data) # {}) =>
                detResult = [PixelsPerColumn |-> 10, PixelsPerRow |-> 20]
        /\ detResult.PixelsPerColumn > 0
        /\ detResult.PixelsPerRow > 0

\* a reply of height 1 and width 11 was received and returned
C19_Witness ==
    /\ DetectReturned
    /\ Arrived
    /\ detResult = [PixelsPerColumn |-> 11, PixelsPerRow |-> 1]

\* C20: the reader goroutine is never blocked at its send, whether the caller still
\* waits, has received or has timed out; it sends once after its read returned, on an
\* error as on a success, and then ends; the channel never holds more than one string.
C20_SendNeverBlocks ==
    /\ readerPc = "send" => ENABLED ReaderSend
    /\ Len(responseChan) <= 1
    /\ readerPc \in {"none", "read", "send"} => sends = 0
    /\ readerPc = "done" => sends = 1

\* the caller timed out and returned, the goroutine sent all the same and ended
C20_Witness ==
    /\ DetectReturned
    /\ timedOut
    /\ readerPc = "done"
    /\ sends = 1
    /\ responseChan = <<stdin.data>>
    /\ stdin.data # <<>>

----------------------------------------------------------------------------
(* Claims about TerminalCapabilities, checked under SpecCaps *)

\* some caller is inside DetectTerminalCellSize or has not yet left Do after it
Detecting == \E q \in Callers : cpc[q] \in {"detect", "finish"}

C18_State ==
    /\ detections <= 1
    /\ \A p \in Getters : cpc[p] = "ret" =>
        /\ detections = 1
        /\ ~Detecting
        /\ detected # NoSize
        /\ got[p] = detected
    /\ \A p, q \in Getters : (cpc[p] = "ret" /\ cpc[q] = "ret") => got[p] = got[q]

C18_Step ==
    \A p \in Getters : (cpc[p] # "ret" /\ cpc'[p] = "ret") =>
        /\ ~Detecting
        /\ detections = 1
        /\ got'[p] = detected

\* C18: whatever the interleaving of the calls on one instance,
\* DetectTerminalCellSize is called once at most, GetTerminalCellSize returns only
\* when that call is over and returns what it returned, never the constructor's value
\* while it runs, and all callers get the same value.
C18_DetectOnce == [][C18_Step]_vars /\ [](C18_State)

\* every caller is through, two of them got a detected size unlike the constructor's
C18_Witness ==
    /\ \A p \in Callers : cpc[p] = "ret"
    /\ detections = 1
    /\ detected # [PixelsPerColumn |-> 10, PixelsPerRow |-> 20]
    /\ \A p \in Getters : got[p] = detected
    /\ Cardinality(Getters) >= 2

----------------------------------------------------------------------------
(* Claims about the progress of resolveShellSubstitution, checked under SpecLive *)

\* the places of raw where a "$(" stands
RoundStarts(raw) == {p \in 0 .. Len(raw) - 2 : At(raw, p) = "$" /\ At(raw, p + 1) = "("}

ExecCalls == {k \in 1..Len(calls) : calls[k].kind = "exec"}

\* a terminated span starts at the scan index; its close lies beyond it
AtTerminatedSpan ==
    /\ SpanStart(command, i)
    /\ SpanEnd(command, i) > i
    /\ SpanEnd(command, i) < Len(command)

C21_Step ==
    /\ i' >= i
    /\ (pc = "scan" /\ pc' = "scan") =>
        /\ i' > i
        /\ i' = i + 1 \/ (AtTerminatedSpan /\ i' = SpanEnd(command, i) + 1)
    /\ (pc = "scan" /\ pc' = "exec") => i' = i
    /\ (pc = "exec" /\ pc' = "scan") =>
        /\ i' > i
        /\ AtTerminatedSpan
        /\ i' = SpanEnd(command, i) + 1

C21_Bound ==
    /\ i <= Len(command)
    /\ Cardinality(ExecCalls) <= Cardinality(RoundStarts(command))

\* C21: every call ends, provided each call of the executor returns: each turn of the
\* loop moves the scan index up, by one or to one past a closing bracket that lies
\* beyond it, the index never passes the end of the command, and the executor is not
\* called more often than "$(" stands in the command.
C21_Terminates == [][C21_Step]_vars /\ [](C21_Bound) /\ <>(pc = "done")

\* a call that ended without error after one call of the executor for two "$("
C21_Witness ==
    /\ pc = "done"
    /\ tokErr = NoError
    /\ Cardinality(ExecCalls) = 1
    /\ Cardinality(RoundStarts(command)) = 2

----------------------------------------------------------------------------
(* Claims about the unexpected error, checked under Spec *)

\* end is a valid upper end of a slice that starts two past the scan index
SliceValid(end) == i + 2 <= end /\ end <= Len(command)

\* C22: the "unexpected error in tokenization" is never returned: at both calls of
\* findEndingParenthesis the index handed over is inside the command and holds the
\* opening bracket just tested, the result is not -1, and it bounds a valid slice
\* from i+2.
C22_NoUnexpectedError ==
    /\ resErr.kind # "unexpected"
    /\ tokErr.kind # "unexpected"
    /\ AtCurly =>
        /\ 0 <= i + 1 /\ i + 1 < Len(command)
        /\ At(command, i + 1) = "{"
        /\ curlyEnd # -1
        /\ SliceValid(curlyEnd)
    /\ AtRound =>
        /\ 0 <= i + 1 /\ i + 1 < Len(command)
        /\ At(command, i + 1) = "("
        /\ roundEnd # -1
        /\ SliceValid(roundEnd)

\* success after a variable and a sub-command with nothing between its brackets
C22_Witness ==
    /\ Succeeded
    /\ Len(calls) = 2
    /\ calls[1].kind = "env"
    /\ calls[2].kind = "exec"
    /\ calls[2].arg = <<>>
    /\ calls[2].end = calls[2].start + 2

====
